---- MODULE Spec2Model ----
(***************************************************************************)
(* couchclaude: the Telegram polling daemon (src/poll.py) with the tmux    *)
(* bridge (src/tmux_utils.py) and the chat transport (src/telegram_api.py). *)
(*                                                                         *)
(* Text is modelled as a sequence of atoms (a character, or a fixed        *)
(* phrase that the code only ever treats as a unit).  A captured screen is *)
(* a sequence of lines; a line carries what the regular expressions of     *)
(* poll.py look at: its leading decoration, its kind, and its body.        *)
(***************************************************************************)
EXTENDS Integers, Sequences, FiniteSets, TLC

VARIABLES
    running,              \* poll.py:24   module global `running`
    pc,                   \* position of main() (poll.py:476-581)
    offset,               \* poll.py:469  local `offset` of main()
    updates,              \* poll.py:479  the list returned by get_updates
    idx,                  \* poll.py:497  position of the for loop in `updates`
    pending_files,        \* poll.py:495  local `pending_files`
    now,                  \* the clock read by time.time()
    last_screen_check,    \* poll.py:470
    last_prompt_hash,     \* poll.py:25
    last_ratelimit_hash,  \* poll.py:210
    ratelimit_waiting,    \* poll.py:211
    act,                  \* name of the step taken last
    trace,                \* the external calls made by the step taken last, in order
    pObs,                 \* what the last check_for_prompts observed and did
    rObs,                 \* what the last check_for_ratelimit observed and did
    handled,              \* update_id -> number of times the loop body ran for it
    tickLog,              \* the handling events of the current tick, in order
    input,                \* the input of the function under study
    output                \* what the function returned for it

vars == <<running, pc, offset, updates, idx, pending_files, now, last_screen_check,
          last_prompt_hash, last_ratelimit_hash, ratelimit_waiting,
          act, trace, pObs, rObs, handled, tickLog, input, output>>

loopVars == <<running, pc, offset, updates, idx, pending_files, now,
              last_screen_check, handled, tickLog>>

promptVars == <<last_prompt_hash, pObs>>

ratelimitVars == <<last_ratelimit_hash, ratelimit_waiting, rObs>>

detectionVars == <<last_prompt_hash, last_ratelimit_hash, ratelimit_waiting>>

fnVars == <<input, output>>

(***************************************************************************)
(* Bounds of the model.                                                    *)
(***************************************************************************)
MaxScreenLines == 3
MaxUpdateId == 3
MaxNow == 10
MaxBatch == 2
MaxTextLen == 30
MaxLimit == 26
LenWindow == 30
MaxParseLines == 3
MaxOptions == 9
MaxFiles == 3
MaxChars == 4
MaxKeys == 3
MaxWait == 5

(***************************************************************************)
(* Program constants.                                                      *)
(***************************************************************************)
SCREEN_CHECK_INTERVAL == 5
MAX_MESSAGE_LEN == 4000
QUESTION_MIN_LEN == 5
WAIT_TIMEOUT == 30
\* the characters of "? *Prompt*\n\n", of "? Prompt\n\n", of
\* "(stop sign) *Rate limit reached*\n\n" and of "\n(clock) "
PROMPT_HEAD_LEN == 12
PROMPT_PLAIN_HEAD_LEN == 10
RATELIMIT_HEAD_LEN == 24
RESET_HEAD_LEN == 3

\* Python's None, where a text or a digest is expected.
None == <<"None">>

\* offset = None (poll.py:469): get_updates then sends no offset, and update ids start at 1
NoOffset == 0

(***************************************************************************)
(* Lines of a captured pane.                                               *)
(*   lead : leading decoration (whitespace, prompt glyphs, box drawing)    *)
(*   kind : what the body is                                               *)
(*   num  : the digits of an option line                                   *)
(*   body : the text after the decoration, as atoms                        *)
(*   len  : the number of characters of the body                           *)
(*   reset: the fragment RESET_TIME_RE finds in the line ("" if none)      *)
(***************************************************************************)
Line(lead, kind, num, body, len, reset) ==
    [lead |-> lead, kind |-> kind, num |-> num, body |-> body, len |-> len, reset |-> reset]

\* "" or only whitespace
BlankLine == Line("", "blank", "", <<>>, 0, "")
\* only an ANSI escape sequence, e.g. "\x1b[0m"
CtrlLine == Line("", "ctrl", "", <<"ESC[0m">>, 4, "")
\* ordinary program output
TextLine == Line("", "text", "", <<"Compiling project">>, 17, "")
\* a separator: only box drawing / dash characters
SepLine == Line("", "sep", "", <<"-----">>, 5, "")
\* navigation hint of the choice widget (PROMPT_DETECT_RE and SELECTOR_RE)
ChromeLine == Line("", "chrome", "", <<"Enter to confirm . Esc to cancel">>, 32, "")
\* matches PROMPT_DETECT_RE only (its fourth alternative)
AllowLine == Line("", "allow", "", <<"Do you want to allow this?">>, 26, "")
OptYes == Line("> ", "opt", "1", <<"Y", "e", "s">>, 6, "")
OptNo == Line("  ", "opt", "2", <<"N", "o">>, 5, "")
\* OptNo with one character of the label changed
OptNa == Line("  ", "opt", "2", <<"N", "a">>, 5, "")
LimitA == Line("| ", "limit", "",
               <<"You've hit your limit . resets Jan 30 at 12pm (America/Mazatlan)">>, 64,
               "resets Jan 30 at 12pm (America/Mazatlan)")
LimitB == Line("", "limit", "",
               <<"Claude usage limit reached. Your limit will reset at 6pm (Europe/Madrid).">>, 73,
               "reset at 6pm (Europe/Madrid)")

\* the lines the prompt check tells apart
PromptAlphabet == {BlankLine, CtrlLine, TextLine, ChromeLine, OptNo, OptNa}

\* the lines the rate-limit check tells apart
RatelimitAlphabet == {BlankLine, CtrlLine, TextLine, LimitA, LimitB}

SeqsUpTo(S, n) == UNION {[1..k -> S] : k \in 0..n}

\* The captures the detection specifications draw from.
PromptScreens == SeqsUpTo(PromptAlphabet, MaxScreenLines)

RatelimitScreens == SeqsUpTo(RatelimitAlphabet, MaxScreenLines)

\* The captures the loop specification draws from: one per outcome of the checks.
LoopScreens == {<<>>, <<TextLine>>, <<AllowLine, OptYes, OptNo>>, <<LimitA>>}

(***************************************************************************)
(* Helpers on sequences.                                                   *)
(***************************************************************************)
RECURSIVE JoinWith(_, _)
JoinWith(sep, ss) ==
    IF ss = <<>> THEN <<>>
    ELSE IF Len(ss) = 1 THEN Head(ss)
    ELSE Head(ss) \o <<sep>> \o JoinWith(sep, Tail(ss))

RECURSIVE SelectIdx(_, _, _)
\* the indices i in lo..Len(s) with P(s[i]) given as the set `good`, ascending
SelectIdx(s, good, lo) ==
    IF lo > Len(s) THEN <<>>
    ELSE IF s[lo] \in good THEN <<lo>> \o SelectIdx(s, good, lo + 1)
    ELSE SelectIdx(s, good, lo + 1)

Min(a, b) == IF a < b THEN a ELSE b

(***************************************************************************)
(* poll.py: text sanitizing and the regular expressions.                   *)
(***************************************************************************)
\* sanitize_text on one line: ANSI_RE removes escape sequences, then the
\* control characters go.
SanitizeLine(l) == IF l.kind = "ctrl" THEN BlankLine ELSE l

sanitize_text(screen) == [i \in 1..Len(screen) |-> SanitizeLine(screen[i])]

\* no screen counts as empty
NeverEmpty(screen) == FALSE

\* str.strip() leaves nothing: only whitespace (an escape character is none)
StripsToEmpty(screen) == \A i \in 1..Len(screen) : screen[i].kind = "blank"

\* all(c in separator characters) of a stripped line
IsSeparator(l) == l.kind = "sep"

PROMPT_DETECT_RE(l) == l.kind \in {"chrome", "allow"}

SELECTOR_RE(l) == l.kind = "chrome"

OPTION_RE(l) == l.kind = "opt"

RATELIMIT_RE(l) == l.kind = "limit"

\* a gate that opens for option lines
OptionsDetected(screen) == \E i \in 1..Len(screen) : screen[i].kind = "opt"

\* PROMPT_DETECT_RE.search(screen): `.` does not cross a line break
PromptDetected(screen) == \E i \in 1..Len(screen) : PROMPT_DETECT_RE(screen[i])

\* RATELIMIT_RE.search(clean)
RatelimitDetected(clean) == \E i \in 1..Len(clean) : RATELIMIT_RE(clean[i])

\* every option numbered 1
OptionTextRenumbered(l) == <<"1", ".", " ">> \o l.body

\* f"{m.group(1)}. {m.group(2).strip()}"
OptionText(l) == <<l.num, ".", " ">> \o l.body

\* the loop of parse_prompt_parts over the lines: indices of the option lines
OptionLines(lines) ==
    SelectIdx(lines,
              {l \in {lines[i] : i \in 1..Len(lines)} :
                   /\ l.kind # "blank"
                   /\ ~IsSeparator(l)
                   /\ ~SELECTOR_RE(l)
                   /\ OPTION_RE(l)},
              1)

\* a line the backward scan accepts as the question
IsQuestionLine(l) ==
    /\ l.kind # "blank"
    /\ ~IsSeparator(l)
    /\ ~OPTION_RE(l)
    /\ l.len > QUESTION_MIN_LEN

\* re.sub(r'^[markers and whitespace]+', '', stripped): a leading decoration of
\* prompt glyphs goes, any other stays
QuestionText(l) == IF l.lead \in {"", "> ", "  "} THEN l.body ELSE <<l.lead>> \o l.body

RECURSIVE QuestionAbove(_, _)
\* the backward scan from line i up
QuestionAbove(lines, i) ==
    IF i < 1 THEN None
    ELSE IF IsQuestionLine(lines[i]) THEN QuestionText(lines[i])
    ELSE QuestionAbove(lines, i - 1)

NoPrompt == [found |-> FALSE, question |-> None, options |-> <<>>]

parse_prompt_parts(screen) ==
    LET lines == sanitize_text(screen)
        opts == OptionLines(lines)
    IN  IF opts = <<>> THEN NoPrompt
        ELSE [found |-> TRUE,
              question |-> QuestionAbove(lines, opts[1] - 1),
              options |-> [k \in 1..Len(opts) |-> OptionText(lines[opts[k]])]]

\* parse_prompt: None is modelled as the empty text
parse_prompt(screen) ==
    LET parsed == parse_prompt_parts(screen)
    IN  IF ~parsed.found THEN <<>>
        ELSE IF parsed.question # None
             THEN parsed.question \o <<"\n\n">> \o JoinWith("\n", parsed.options)
             ELSE JoinWith("\n", parsed.options)

\* hashlib.md5(text.encode()).hexdigest(): a digest, taken to be free of collisions
Md5(text) == <<"md5">> \o text

(***************************************************************************)
(* The buttons of a prompt notification (poll.py:415-426).                 *)
(***************************************************************************)
BtnEmojis == <<"U+2705", "U+1F504", "U+270D", "U+1F4AC", "U+2B50", "U+1F517", "U+1F527", "U+2699">>

FallbackEmoji == "U+25B6"

RECURSIVE FirstDot(_, _)
\* index of the first "." of an option text, 0 if none
FirstDot(opt, i) ==
    IF i > Len(opt) THEN 0 ELSE IF opt[i] = "." THEN i ELSE FirstDot(opt, i + 1)

RECURSIVE StripSpaces(_)
StripSpaces(s) ==
    IF s = <<>> THEN s
    ELSE IF Head(s) = " " THEN StripSpaces(Tail(s))
    ELSE IF s[Len(s)] = " " THEN StripSpaces(SubSeq(s, 1, Len(s) - 1))
    ELSE s

\* the palette starts over after its last emoji
ButtonForCycled(i, opt) ==
    LET d == FirstDot(opt, 1)
        num == IF d = 0 THEN StripSpaces(opt) ELSE StripSpaces(SubSeq(opt, 1, d - 1))
        label == IF d = 0 THEN opt ELSE StripSpaces(SubSeq(opt, d + 1, Len(opt)))
    IN  [text |-> <<BtnEmojis[((i - 1) % Len(BtnEmojis)) + 1], " ">> \o label,
         callback_data |-> num]

ButtonFor(i, opt) ==
    LET d == FirstDot(opt, 1)
        num == IF d = 0 THEN StripSpaces(opt) ELSE StripSpaces(SubSeq(opt, 1, d - 1))
        label == IF d = 0 THEN opt ELSE StripSpaces(SubSeq(opt, d + 1, Len(opt)))
        emoji == IF i <= Len(BtnEmojis) THEN BtnEmojis[i] ELSE FallbackEmoji
    IN  [text |-> <<emoji, " ">> \o label, callback_data |-> num]

Buttons(options) == [i \in 1..Len(options) |-> ButtonFor(i, options[i])]

(***************************************************************************)
(* External calls, as recorded in `trace`.                                 *)
(***************************************************************************)
Call(name, text, mode, buttons, ok) ==
    [call |-> name, text |-> text, mode |-> mode, buttons |-> buttons, ok |-> ok]

\* api.send_message(chat_id, text, parse_mode)
SendMessage(text, mode, ok) == Call("send_message", text, mode, <<>>, ok)

\* api.send_message_with_buttons(chat_id, text, buttons, parse_mode)
SendButtons(text, buttons, ok) == Call("send_message_with_buttons", text, "Markdown", buttons, ok)

\* capture_pane(session, lines)
CapturePane(ok) == Call("capture_pane", <<>>, "", <<>>, ok)

\* msg[:4000]
Truncate(msg) == SubSeq(msg, 1, Min(Len(msg), MAX_MESSAGE_LEN))

(***************************************************************************)
(* check_for_prompts (poll.py:384-441).                                    *)
(***************************************************************************)
\* a capture_pane result: the call raised, or returned a screen
Captured(screen) == [ok |-> TRUE, screen |-> screen]

CaptureFailed == [ok |-> FALSE, screen |-> <<>>]

\* the stored digest survives a screen without the signature
PromptGateKept(h) == h

\* poll.py:399
PromptGateReset(h) == None

\* no prompt is ever taken for the one announced last
PromptNeverDuplicate(h, last) == FALSE

\* poll.py:408
PromptIsDuplicate(h, last) == h = last

\* what the check makes of the capture
PromptKind(cap) ==
    IF ~cap.ok THEN "fail"
    ELSE IF StripsToEmpty(cap.screen) THEN "empty"
    ELSE IF ~PromptDetected(cap.screen) THEN "nosig"
    ELSE IF parse_prompt(cap.screen) = <<>> THEN "noopts"
    ELSE "prompt"

PromptMsg(text) == Truncate(<<"? *Prompt*\n\n">> \o text)

PromptFallbackMsg(text) == <<"? Prompt\n\n">> \o text

\* poll.py:432-441: the formatted send, and the plain one when it raised
PromptSends(screen, text, ok1, ok2) ==
    LET parsed == parse_prompt_parts(screen)
        buttons == IF parsed.found THEN Buttons(parsed.options) ELSE <<>>
        first == IF buttons # <<>>
                 THEN SendButtons(PromptMsg(text), buttons, ok1)
                 ELSE SendMessage(PromptMsg(text), "Markdown", ok1)
    IN  IF ok1 THEN <<first>>
        ELSE <<first, SendMessage(PromptFallbackMsg(text), "", ok2)>>

IsPromptEmission(e) ==
    /\ e.call \in {"send_message", "send_message_with_buttons"}
    /\ e.mode = "Markdown"
    /\ e.text # <<>> /\ e.text[1] = "? *Prompt*\n\n"

\* two texts of the same length that differ in exactly one character
OneCharApart(t1, t2) ==
    /\ Len(t1) = Len(t2)
    /\ Cardinality({i \in 1..Len(t1) : t1[i] # t2[i]}) = 1

CountIn(tr, good) == Cardinality({i \in 1..Len(tr) : tr[i] \in good})

PromptEmissions(tr) == CountIn(tr, {e \in {tr[i] : i \in 1..Len(tr)} : IsPromptEmission(e)})

check_for_prompts(cap, ok1, ok2) ==
    LET kind == PromptKind(cap)
        text == IF kind = "prompt" THEN parse_prompt(cap.screen) ELSE <<>>
        h == Md5(text)
        emit == kind = "prompt" /\ ~PromptIsDuplicate(h, last_prompt_hash)
        calls == <<CapturePane(cap.ok)>>
                 \o (IF emit THEN PromptSends(cap.screen, text, ok1, ok2) ELSE <<>>)
    IN  /\ last_prompt_hash' =
              IF kind = "nosig" THEN PromptGateReset(last_prompt_hash)
              ELSE IF emit THEN h
              ELSE last_prompt_hash
        /\ trace' = calls
        /\ act' = "check_for_prompts"

\* the record of a prompt check kept for the claims about consecutive checks
ObservePrompt(cap) ==
    LET kind == PromptKind(cap)
        text == IF kind = "prompt" THEN parse_prompt(cap.screen) ELSE <<>>
    IN  pObs' = [kind |-> kind, text |-> text,
                 fresh |-> (kind = "prompt" /\ last_prompt_hash # Md5(text)),
                 sent |-> PromptEmissions(trace'),
                 oneChar |-> OneCharApart(pObs.text, text),
                 prevDup |-> (pObs.kind = "prompt" /\ pObs.sent = 0),
                 announced |-> IF PromptEmissions(trace') > 0 THEN text ELSE pObs.announced,
                 again |-> (PromptEmissions(trace') > 0 /\ pObs.announced = text),
                 sig |-> \E i \in 1..Len(cap.screen) :
                             cap.screen[i].kind \in {"chrome", "allow"},
                 nopts |-> Cardinality({i \in 1..Len(cap.screen) :
                                           cap.screen[i].kind = "opt"})]

(***************************************************************************)
(* check_for_ratelimit (poll.py:315-381).                                  *)
(***************************************************************************)
\* the recovery is announced whatever the state
RecoveryAlways(waiting) == TRUE

\* poll.py:330
RecoveryDue(waiting) == waiting

\* the stored digest survives the banner's disappearance
RatelimitResetKept(h) == h

\* poll.py:337
RatelimitReset(h) == None

\* poll.py:357
RatelimitIsDuplicate(h, last) == h = last

\* poll.py:341-348: the lines showing a limit phrase, leading box drawing removed
RelevantLines(clean) ==
    LET hits == SelectIdx(clean, {l \in {clean[i] : i \in 1..Len(clean)} : RATELIMIT_RE(l)}, 1)
    IN  [k \in 1..Len(hits) |-> clean[hits[k]].body]

\* poll.py:362-366: RESET_TIME_RE.search(clean), the first fragment of the text
ResetInfo(clean) ==
    LET hits == SelectIdx(clean, {l \in {clean[i] : i \in 1..Len(clean)} : l.reset # ""}, 1)
    IN  IF hits = <<>> THEN <<>> ELSE <<"\n(clock) ", clean[hits[1]].reset>>

RatelimitKind(cap) ==
    IF ~cap.ok THEN "fail"
    ELSE IF StripsToEmpty(sanitize_text(cap.screen)) THEN "empty"
    ELSE IF ~RatelimitDetected(sanitize_text(cap.screen)) THEN "clear"
    ELSE IF RelevantLines(sanitize_text(cap.screen)) = <<>> THEN "norelevant"
    ELSE "limited"

RatelimitMsg(content, clean) ==
    Truncate(<<"(stop) *Rate limit reached*\n\n">> \o content \o ResetInfo(clean))

RecoveryMsg == <<"(ok) Rate limit reset - Claude is ready again!">>

\* poll.py:375-381
RatelimitSends(msg, ok1, ok2) ==
    IF ok1 THEN <<SendMessage(msg, "Markdown", ok1)>>
    ELSE <<SendMessage(msg, "Markdown", ok1), SendMessage(msg, "", ok2)>>

IsRecovery(e) == e.call = "send_message" /\ e.text = RecoveryMsg

IsRatelimitEmission(e) ==
    /\ e.call = "send_message"
    /\ e.mode = "Markdown"
    /\ e.text # <<>> /\ e.text[1] = "(stop) *Rate limit reached*\n\n"

Recoveries(tr) == CountIn(tr, {e \in {tr[i] : i \in 1..Len(tr)} : IsRecovery(e)})

RatelimitEmissions(tr) == CountIn(tr, {e \in {tr[i] : i \in 1..Len(tr)} : IsRatelimitEmission(e)})

check_for_ratelimit(cap, ok1, ok2) ==
    LET kind == RatelimitKind(cap)
        clean == sanitize_text(cap.screen)
        content == IF kind = "limited" THEN JoinWith("\n", RelevantLines(clean)) ELSE <<>>
        h == Md5(content)
        recover == kind = "clear" /\ RecoveryDue(ratelimit_waiting)
        emit == kind = "limited" /\ ~RatelimitIsDuplicate(h, last_ratelimit_hash)
        calls == <<CapturePane(cap.ok)>>
                 \o (IF recover THEN <<SendMessage(RecoveryMsg, "HTML", ok1)>> ELSE <<>>)
                 \o (IF emit THEN RatelimitSends(RatelimitMsg(content, clean), ok1, ok2) ELSE <<>>)
    IN  /\ ratelimit_waiting' =
              IF recover THEN FALSE ELSE IF emit THEN TRUE ELSE ratelimit_waiting
        /\ last_ratelimit_hash' =
              IF kind = "clear" THEN RatelimitReset(last_ratelimit_hash)
              ELSE IF emit THEN h
              ELSE last_ratelimit_hash
        /\ trace' = calls
        /\ act' = "check_for_ratelimit"

\* the record of a rate-limit check kept for the claims about consecutive checks;
\* sig: the last screen the check evaluated showed the signature
ObserveRatelimit(cap) ==
    LET kind == RatelimitKind(cap)
        clean == sanitize_text(cap.screen)
        content == IF kind = "limited" THEN JoinWith("\n", RelevantLines(clean)) ELSE <<>>
        emitted == RatelimitEmissions(trace') > 0
    IN  rObs' = [kind |-> kind, content |-> content,
                 sig |-> IF kind \in {"clear", "limited"} THEN kind = "limited" ELSE rObs.sig,
                 ever |-> (rObs.ever \/ kind = "limited"),
                 announced |-> IF emitted THEN content ELSE rObs.announced,
                 again |-> (emitted /\ rObs.announced = content)]

(***************************************************************************)
(* Initial state: the module globals as poll.py sets them at import, and   *)
(* main() about to announce itself.                                        *)
(***************************************************************************)
InitProgram ==
    /\ running = TRUE
    /\ pc = "start"
    /\ offset = NoOffset
    /\ updates = <<>>
    /\ idx = 1
    /\ pending_files = <<>>
    /\ now = SCREEN_CHECK_INTERVAL
    /\ last_screen_check = 0
    /\ last_prompt_hash = None
    /\ last_ratelimit_hash = None
    /\ ratelimit_waiting = FALSE
    /\ act = "init"
    /\ trace = <<>>
    /\ pObs = [kind |-> "init", text |-> <<>>, fresh |-> FALSE, sent |-> 0,
               oneChar |-> FALSE, prevDup |-> FALSE, announced |-> None, again |-> FALSE,
               sig |-> FALSE, nopts |-> 0]
    /\ rObs = [kind |-> "init", content |-> <<>>, sig |-> FALSE, ever |-> FALSE,
               announced |-> None, again |-> FALSE]
    /\ handled = [i \in 1..MaxUpdateId |-> 0]
    /\ tickLog = <<>>

Init ==
    /\ InitProgram
    /\ input = <<>>
    /\ output = <<>>

(***************************************************************************)
(* The periodic checks on their own: any sequence of captures.             *)
(***************************************************************************)
\* the outcomes of the chat transport for the two sends a check can make: the
\* second send happens only when the first one raised
SendOutcomes == {<<TRUE, TRUE>>, <<FALSE, TRUE>>, <<FALSE, FALSE>>}

PromptCheck ==
    \E cap \in {CaptureFailed} \cup {Captured(s) : s \in PromptScreens} :
        \E oks \in SendOutcomes :
            /\ check_for_prompts(cap, oks[1], oks[2])
            /\ ObservePrompt(cap)
            /\ UNCHANGED <<loopVars, ratelimitVars, fnVars>>

RatelimitCheck ==
    \E cap \in {CaptureFailed} \cup {Captured(s) : s \in RatelimitScreens} :
        \E oks \in SendOutcomes :
            /\ check_for_ratelimit(cap, oks[1], oks[2])
            /\ ObserveRatelimit(cap)
            /\ UNCHANGED <<loopVars, promptVars, fnVars>>

NextPrompts == PromptCheck

SpecPrompts == Init /\ [][NextPrompts]_vars

NextRatelimit == RatelimitCheck

SpecRatelimit == Init /\ [][NextRatelimit]_vars

(***************************************************************************)
(* tmux_utils.py: the calls into the terminal.                             *)
(***************************************************************************)
Literal(text, ok) == Call("send_keys_literal", text, "", <<>>, ok)

EnterKey(ok) == Call("send_keys_enter", <<>>, "", <<>>, ok)

EscapeKey(ok) == Call("send_keys_escape", <<>>, "", <<>>, ok)

Snapshot(ok) == Call("save_snapshot", <<>>, "", <<>>, ok)

\* wait_for_input(session, timeout=30) and what it returned
WaitForInput(found) == Call("wait_for_input", <<ToString(WAIT_TIMEOUT)>>, "", <<>>, found)

\* what happens to the two tmux commands of send_keys
KeysOutcomes == {"ok", "literal_failed", "enter_failed"}

\* the result of running code that may raise: the calls made, and whether it raised
Ran(calls, raised) == [calls |-> calls, raised |-> raised]

\* the Enter key goes out whatever became of the literal text
SendKeysEnterRegardless(text, enter, k) ==
    Ran(<<Literal(text, k # "literal_failed"), EnterKey(k # "enter_failed")>>, k # "ok")

\* send_keys(session_name, text, enter) (tmux_utils.py:50-65)
SendKeys(text, enter, k) ==
    IF k = "literal_failed" THEN Ran(<<Literal(text, FALSE)>>, TRUE)
    ELSE IF ~enter THEN Ran(<<Literal(text, TRUE)>>, FALSE)
    ELSE Ran(<<Literal(text, TRUE), EnterKey(k = "ok")>>, k # "ok")

\* send_keys(session, text): enter is True by default
send_keys(text, k) == SendKeys(text, TRUE, k)

\* the pane is not saved
SnapshotSkipped(ok) == <<>>

\* save_snapshot(session) (tmux_utils.py:68-75): a failure is swallowed
save_snapshot(ok) == <<Snapshot(ok)>>

\* send_keys; time.sleep(0.5); save_snapshot
InjectAndSnapshot(text, w) ==
    LET r == send_keys(text, w.keys)
    IN  IF r.raised THEN r ELSE Ran(r.calls \o save_snapshot(w.snap), FALSE)

\* a call with the outcome it had
Outcome(c, ok) == [c EXCEPT !.ok = ok]

\* try: body; okCall   except Exception: errCall    where okCall and errCall
\* are chat calls: s1 is the outcome of the first chat call made, s2 of the second
TryThenReply(body, okCall, errCall, s1, s2) ==
    IF body.raised THEN Ran(body.calls \o <<Outcome(errCall, s1)>>, ~s1)
    ELSE IF s1 THEN Ran(body.calls \o <<Outcome(okCall, TRUE)>>, FALSE)
    ELSE Ran(body.calls \o <<Outcome(okCall, FALSE), Outcome(errCall, s2)>>, ~s2)

(***************************************************************************)
(* Inbound updates.                                                        *)
(*   kind: callback | none | photo | document | text                       *)
(*   auth: the chat id of the message (of the callback's message) is the   *)
(*         configured chat_id                                              *)
(*   text: the message text or caption, the callback's data                *)
(***************************************************************************)
Shape(kind, auth, text) == [kind |-> kind, auth |-> auth, text |-> text]

UpdateShapes ==
    { Shape("callback", TRUE, <<"2">>),
      Shape("callback", FALSE, <<"2">>),
      Shape("none", FALSE, <<>>),
      Shape("photo", TRUE, <<"look at this">>),
      Shape("document", TRUE, <<>>),
      Shape("text", TRUE, <<>>),
      Shape("text", TRUE, <<"hello">>),
      Shape("text", FALSE, <<"/cmd", " ", "rm -rf /">>),
      Shape("text", TRUE, <<"/CMD", " ", "ls">>),
      Shape("text", TRUE, <<"/cd", " ", "/tmp">>),
      Shape("text", TRUE, <<"/bogus">>) }

WithId(shape, id) ==
    [update_id |-> id, kind |-> shape.kind, auth |-> shape.auth, text |-> shape.text]

\* no check of the chat id at all
AuthorizedAny(u) == TRUE

\* poll.py:504 and 516
Authorized(u) == u.auth

\* the cursor left at the update just seen
NextOffsetSame(u) == u.update_id

\* poll.py:498
NextOffset(u) == u.update_id + 1

\* the batch walked from its end
CurrentUpdateReversed(us, i) == us[Len(us) + 1 - i]

\* for update in updates (poll.py:497)
CurrentUpdate(us, i) == us[i]

\* what get_updates(offset) may return: updates in ascending id order, none below
\* the offset given
Batches(off) ==
    LET lo == IF off = NoOffset THEN 1 ELSE off
        all == {WithId(sh, id) : sh \in UpdateShapes, id \in lo..MaxUpdateId}
    IN  {b \in SeqsUpTo(all, MaxBatch) :
            \A i \in 1..(Len(b) - 1) : b[i].update_id < b[i + 1].update_id}

(***************************************************************************)
(* handle_command (poll.py:46-130).                                        *)
(***************************************************************************)
SlashWords == {"/ping", "/esc", "/help", "/status", "/view", "/screen", "/cd", "/cmd",
               "/CMD", "/CD", "/Esc", "/bogus", "/"}

\* text.startswith("/")
StartsWithSlash(text) == text # <<>> /\ text[1] \in SlashWords

\* the command word is compared as typed
SameCase(word) == word

\* str.lower() of the command word
Lower(word) ==
    IF word = "/CMD" THEN "/cmd"
    ELSE IF word = "/CD" THEN "/cd"
    ELSE IF word = "/Esc" THEN "/esc"
    ELSE word

\* parts = text.strip().split(None, 1)
CommandWord(text) == Lower(text[1])

CommandArg(text) == IF Len(text) >= 3 THEN text[3] ELSE ""

ErrorMsg == <<"(x) Error: ", "e">>

\* poll.py:99-105: the sanitized, stripped screen (the screens here are far
\* shorter than the 3900 characters the reply keeps)
ViewContent(screen) ==
    LET clean == sanitize_text(screen)
    IN  IF StripsToEmpty(clean) THEN <<"(empty screen)">>
        ELSE JoinWith("\n", [i \in 1..Len(clean) |-> <<clean[i].lead>> \o clean[i].body])

\* the outcomes a handler depends on: of send_keys, of save_snapshot, of the
\* other terminal command it runs, of its first and second chat call
Worlds == [keys : KeysOutcomes, snap : BOOLEAN, s1 : BOOLEAN, s2 : BOOLEAN]

TerminalOk(w) == w.keys = "ok"

handle_command(text, screen, w) ==
    LET cmd == CommandWord(text)
        arg == CommandArg(text)
        ok(msg) == SendMessage(msg, "HTML", w.s1)
        Plain == SendMessage(ViewContent(screen), "", TRUE)
        EscSent == SendMessage(<<"Escape sent">>, "HTML", TRUE)
        CdSent == SendMessage(<<"Sent: cd ", arg>>, "HTML", TRUE)
        CmdSent == SendMessage(<<"Sent: ", arg>>, "HTML", TRUE)
        Err == SendMessage(ErrorMsg, "HTML", TRUE)
    IN  IF cmd = "/ping" THEN Ran(<<ok(<<"pong">>)>>, ~w.s1)
        ELSE IF cmd = "/esc"
        THEN TryThenReply(Ran(<<EscapeKey(TerminalOk(w))>>, ~TerminalOk(w)),
                          EscSent, Err, w.s1, w.s2)
        ELSE IF cmd = "/help" THEN Ran(<<ok(<<"couchclaude commands">>)>>, ~w.s1)
        ELSE IF cmd = "/status"
        THEN Ran(<<Call("get_session_info", <<>>, "", <<>>, TerminalOk(w)),
                   ok(IF TerminalOk(w) THEN <<"Session">> ELSE <<"not found">>)>>, ~w.s1)
        ELSE IF cmd \in {"/view", "/screen"}
        THEN TryThenReply(Ran(<<CapturePane(TerminalOk(w))>>, ~TerminalOk(w)),
                          Plain, Err, w.s1, w.s2)
        ELSE IF cmd = "/cd" /\ arg # ""
        THEN TryThenReply(InjectAndSnapshot(<<"cd ", arg>>, w), CdSent, Err, w.s1, w.s2)
        ELSE IF cmd = "/cmd" /\ arg # ""
        THEN TryThenReply(InjectAndSnapshot(<<arg>>, w), CmdSent, Err, w.s1, w.s2)
        ELSE Ran(<<>>, FALSE)

(***************************************************************************)
(* handle_callback (poll.py:192-207).                                      *)
(***************************************************************************)
handle_callback(data, w) ==
    LET Sent == Call("answer_callback_query", <<"Sent: ">> \o data, "", <<>>, TRUE)
        Err == Call("answer_callback_query", ErrorMsg, "", <<>>, TRUE)
    IN  TryThenReply(InjectAndSnapshot(data, w), Sent, Err, w.s1, w.s2)

(***************************************************************************)
(* Attachments (poll.py:133-189).                                          *)
(***************************************************************************)
DownloadOutcomes == {"ok", "get_file_failed", "download_failed"}

\* download_photo / download_document
Download(dl) ==
    IF dl = "get_file_failed" THEN Ran(<<Call("get_file", <<>>, "", <<>>, FALSE)>>, TRUE)
    ELSE Ran(<<Call("get_file", <<>>, "", <<>>, TRUE),
               Call("download_file", <<>>, "", <<>>, dl = "ok")>>, dl # "ok")

\* the local path an attachment is saved at
LocalPath(u) == ToString(u.update_id)

PendingFile(u) == [path |-> LocalPath(u), caption |-> u.text]

\* only the first file is mentioned
FilesPromptFirstOnly(files) ==
    <<"The user sent a file from Telegram. View it at: ", files[1].path>>

\* poll.py:159-175
FilesPrompt(files) ==
    LET paths == [i \in 1..Len(files) |-> <<files[i].path>>]
        withCaption == SelectIdx(files,
                                 {f \in {files[i] : i \in 1..Len(files)} : f.caption # <<>>}, 1)
        captions == [k \in 1..Len(withCaption) |-> files[withCaption[k]].caption]
        count == ToString(Len(files))
    IN  IF captions # <<>>
        THEN IF Len(paths) = 1
             THEN JoinWith(" | ", captions)
                  \o <<"\n\n(Image attached from Telegram, saved at: ">> \o paths[1] \o <<")">>
             ELSE JoinWith(" | ", captions)
                  \o <<"\n\n(", count, " files attached from Telegram, saved at: ">>
                  \o JoinWith(" and ", paths) \o <<")">>
        ELSE IF Len(paths) = 1
             THEN <<"The user sent a file from Telegram. View it at: ">> \o paths[1]
             ELSE <<"The user sent ", count, " files from Telegram. View them at: ">>
                  \o JoinWith(" and ", paths)

\* the injection goes out without waiting for the input prompt
NoWaitBeforeFiles(idle) == <<>>

\* poll.py:178: the wait before the injection
WaitBeforeFiles(idle) == <<WaitForInput(idle)>>

\* send_files_to_claude: idle is what wait_for_input returns; s1, s2 are the
\* outcomes of the first and second chat call made
send_files_to_claude(files, idle, w) ==
    LET warning(o) == SendMessage(<<"(!) Claude not at input prompt, file may need manual Enter">>, "", o)
        done(o) == SendMessage(IF Len(files) = 1 THEN <<"Photo sent to Claude">>
                               ELSE <<ToString(Len(files)), " files sent to Claude">>, "", o)
        wait == WaitBeforeFiles(idle)
        warned == IF idle THEN wait ELSE wait \o <<warning(w.s1)>>
        inject == InjectAndSnapshot(FilesPrompt(files), w)
        sDone == IF idle THEN w.s1 ELSE w.s2
    IN  IF ~idle /\ ~w.s1 THEN Ran(warned, TRUE)
        ELSE IF inject.raised THEN Ran(warned \o inject.calls, TRUE)
        ELSE Ran(warned \o inject.calls \o <<done(sDone)>>, ~sDone)

(***************************************************************************)
(* main (poll.py:444-581).                                                 *)
(***************************************************************************)
\* the time that may pass between two readings of the clock: next to none, or
\* as long as the interval of the screen checks
ElapsedChoices == {0, SCREEN_CHECK_INTERVAL}

Event(id, ev) == [id |-> id, ev |-> ev]

\* poll.py:463-474
Startup ==
    /\ pc = "start"
    /\ \E ok \in BOOLEAN : trace' = <<SendMessage(<<"couchclaude online">>, "HTML", ok)>>
    /\ act' = "startup"
    /\ pc' = "loop"
    /\ offset' = NoOffset
    /\ last_screen_check' = 0
    /\ UNCHANGED <<running, updates, idx, pending_files, now, handled, tickLog,
                   detectionVars, pObs, rObs, fnVars>>

\* the signal leaves the flag as it was
SignalIgnored(flag) == flag

\* handle_signal (poll.py:30-32): running = False
handle_signal(flag) == FALSE

\* a SIGTERM or SIGINT at any point of the run
Signal ==
    /\ pc \notin {"done", "crashed"}
    /\ running
    /\ running' = handle_signal(running)
    /\ act' = "handle_signal"
    /\ trace' = <<>>
    /\ UNCHANGED <<pc, offset, updates, idx, pending_files, now, last_screen_check,
                   handled, tickLog, detectionVars, pObs, rObs, fnVars>>

\* poll.py:476: the test of the while loop finds the flag set
LoopTest ==
    /\ pc = "loop" /\ running
    /\ pc' = "polling"
    /\ trace' = <<>>
    /\ act' = "while"
    /\ UNCHANGED <<running, offset, updates, idx, pending_files, now, last_screen_check,
                   handled, tickLog, detectionVars, pObs, rObs, fnVars>>

\* poll.py:478-485: get_updates raised; sleep and try again
PollFails ==
    /\ pc = "polling"
    /\ pc' = "loop"
    /\ \E d \in ElapsedChoices : now + d <= MaxNow /\ now' = now + d
    /\ trace' = <<Call("get_updates", <<>>, "", <<>>, FALSE)>>
    /\ act' = "get_updates"
    /\ UNCHANGED <<running, offset, updates, idx, pending_files, last_screen_check,
                   handled, tickLog, detectionVars, pObs, rObs, fnVars>>

\* the checks wait for more than the interval
CheckDueLater(t, last) == t - last > SCREEN_CHECK_INTERVAL

\* poll.py:489
CheckDue(t, last) == t - last >= SCREEN_CHECK_INTERVAL

\* poll.py:479 and 488-495: the updates arrive; the screen checks are due or not
Poll ==
    /\ pc = "polling"
    /\ \E batch \in Batches(offset) : updates' = batch
    /\ \E d \in ElapsedChoices : now + d <= MaxNow /\ now' = now + d
    /\ trace' = <<Call("get_updates", <<>>, "", <<>>, TRUE)>>
    /\ act' = "get_updates"
    /\ IF CheckDue(now', last_screen_check)
       THEN last_screen_check' = now' /\ pc' = "prompts"
       ELSE UNCHANGED last_screen_check /\ pc' = "updates"
    /\ idx' = 1
    /\ pending_files' = <<>>
    /\ tickLog' = <<>>
    /\ UNCHANGED <<running, offset, handled, detectionVars, pObs, rObs, fnVars>>

\* poll.py:491
LoopCheckPrompts ==
    /\ pc = "prompts"
    /\ \E cap \in {CaptureFailed} \cup {Captured(sc) : sc \in LoopScreens} :
           \E oks \in SendOutcomes : check_for_prompts(cap, oks[1], oks[2])
    /\ pc' = "ratelimit"
    /\ UNCHANGED <<running, offset, updates, idx, pending_files, now, last_screen_check,
                   handled, tickLog, last_ratelimit_hash, ratelimit_waiting, pObs, rObs, fnVars>>

\* poll.py:492
LoopCheckRatelimit ==
    /\ pc = "ratelimit"
    /\ \E cap \in {CaptureFailed} \cup {Captured(sc) : sc \in LoopScreens} :
           \E oks \in SendOutcomes : check_for_ratelimit(cap, oks[1], oks[2])
    /\ pc' = "updates"
    /\ UNCHANGED <<running, offset, updates, idx, pending_files, now, last_screen_check,
                   handled, tickLog, last_prompt_hash, pObs, rObs, fnVars>>

\* poll.py:497-498: the for loop takes the next update and moves the cursor
NextUpdate ==
    /\ pc = "updates" /\ idx <= Len(updates)
    /\ offset' = NextOffset(CurrentUpdate(updates, idx))
    /\ pc' = "handling"
    /\ trace' = <<>>
    /\ act' = "next_update"
    /\ UNCHANGED <<running, updates, idx, pending_files, now, last_screen_check,
                   handled, tickLog, detectionVars, pObs, rObs, fnVars>>

\* the exception goes on to the caller
Propagated(r) == r

\* try: ... except Exception as e: log.error(...)   (poll.py:505-508 and 550-553)
LoggedOnly(r) == Ran(r.calls, FALSE)

\* what every branch of the loop body leaves behind for the update it was given
Consume(u, ev) ==
    /\ idx' = idx + 1
    /\ handled' = [handled EXCEPT ![u.update_id] = @ + 1]
    /\ tickLog' = Append(tickLog, Event(u.update_id, ev))
    /\ UNCHANGED <<running, offset, updates, now, last_screen_check, detectionVars,
                   pObs, rObs, fnVars>>

\* the body of the for loop is running for updates[idx]
InLoop == pc = "handling" /\ idx <= Len(updates)

\* poll.py:502-518 and 542-544: an update the loop passes over
SkipUpdate ==
    /\ InLoop
    /\ LET u == CurrentUpdate(updates, idx)
       IN  /\ \/ u.kind = "none"
              \/ u.kind # "none" /\ ~Authorized(u)
              \/ u.kind = "text" /\ Authorized(u) /\ u.text = <<>>
           /\ Consume(u, IF u.kind = "none" THEN "no_message"
                         ELSE IF ~Authorized(u) THEN "unauthorized"
                         ELSE "no_text")
    /\ trace' = <<>>
    /\ act' = "skip_update"
    /\ pc' = "updates"
    /\ UNCHANGED pending_files

\* poll.py:501-509: a button press of the authorized chat
HandleCallback ==
    /\ InLoop
    /\ LET u == CurrentUpdate(updates, idx)
       IN  /\ u.kind = "callback" /\ Authorized(u)
           /\ \E w \in Worlds :
                  LET r == LoggedOnly(handle_callback(u.text, w))
                  IN  /\ trace' = r.calls
                      /\ pc' = IF r.raised THEN "crashed" ELSE "updates"
           /\ Consume(u, "callback")
    /\ act' = "handle_callback"
    /\ UNCHANGED pending_files

\* poll.py:521-539: a photo or a document of the authorized chat
HandleAttachment ==
    /\ InLoop
    /\ LET u == CurrentUpdate(updates, idx)
       IN  /\ u.kind \in {"photo", "document"} /\ Authorized(u)
           /\ \E dl \in DownloadOutcomes, s1 \in BOOLEAN :
                  LET r == Download(dl)
                      reply == SendMessage(<<"(x) Photo/File error: ", "e">>, "", s1)
                  IN  /\ trace' = IF r.raised THEN r.calls \o <<reply>> ELSE r.calls
                      /\ pending_files' = IF r.raised THEN pending_files
                                          ELSE Append(pending_files, PendingFile(u))
                      /\ pc' = IF r.raised /\ ~s1 THEN "crashed" ELSE "updates"
                      /\ Consume(u, IF r.raised THEN "download_failed" ELSE "download_ok")
    /\ act' = "download"

\* poll.py:549-554: a command of the authorized chat
HandleCommand ==
    /\ InLoop
    /\ LET u == CurrentUpdate(updates, idx)
       IN  /\ u.kind = "text" /\ Authorized(u) /\ StartsWithSlash(u.text)
           /\ \E w \in Worlds, sc \in LoopScreens :
                  LET r == LoggedOnly(handle_command(u.text, sc, w))
                  IN  /\ trace' = r.calls
                      /\ pc' = IF r.raised THEN "crashed" ELSE "updates"
           /\ Consume(u, "command")
    /\ act' = "handle_command"
    /\ UNCHANGED pending_files

\* poll.py:556-565: a plain message of the authorized chat
HandleText ==
    /\ InLoop
    /\ LET u == CurrentUpdate(updates, idx)
           Sent == SendMessage(<<"Sent to Claude">>, "HTML", TRUE)
           NotSent == SendMessage(<<"(x) Could not send: ", "e">>, "HTML", TRUE)
       IN  /\ u.kind = "text" /\ Authorized(u) /\ u.text # <<>> /\ ~StartsWithSlash(u.text)
           /\ \E w \in Worlds :
                  LET r == TryThenReply(InjectAndSnapshot(u.text, w), Sent, NotSent, w.s1, w.s2)
                  IN  /\ trace' = r.calls
                      /\ pc' = IF r.raised THEN "crashed" ELSE "updates"
           /\ Consume(u, "text")
    /\ act' = "inject_text"
    /\ UNCHANGED pending_files

\* poll.py:568-573: the files collected in this tick go out as one message
FlushFiles ==
    /\ pc = "updates" /\ idx > Len(updates)
    /\ pending_files # <<>>
    /\ \E w \in Worlds, idle, s3 \in BOOLEAN :
           LET r == send_files_to_claude(pending_files, idle, w)
               reply == SendMessage(<<"(x) File send error: ", "e">>, "", s3)
           IN  /\ trace' = IF r.raised THEN r.calls \o <<reply>> ELSE r.calls
               /\ pc' = IF r.raised /\ ~s3 THEN "crashed" ELSE "loop"
    /\ tickLog' = Append(tickLog, Event(0, "flush"))
    /\ act' = "flush_files"
    /\ UNCHANGED <<running, offset, updates, idx, pending_files, now, last_screen_check,
                   handled, detectionVars, pObs, rObs, fnVars>>

\* poll.py:568: nothing was collected
EndTick ==
    /\ pc = "updates" /\ idx > Len(updates)
    /\ pending_files = <<>>
    /\ pc' = "loop"
    /\ trace' = <<>>
    /\ act' = "end_tick"
    /\ UNCHANGED <<running, offset, updates, idx, pending_files, now, last_screen_check,
                   handled, tickLog, detectionVars, pObs, rObs, fnVars>>

\* poll.py:476 and 575-581: the loop ends, the offline message is tried
Exit ==
    /\ pc = "loop" /\ ~running
    /\ \E ok \in BOOLEAN : trace' = <<SendMessage(<<"couchclaude offline">>, "HTML", ok)>>
    /\ pc' = "done"
    /\ act' = "exit"
    /\ UNCHANGED <<running, offset, updates, idx, pending_files, now, last_screen_check,
                   handled, tickLog, detectionVars, pObs, rObs, fnVars>>

Next ==
    \/ Startup
    \/ Signal
    \/ LoopTest
    \/ PollFails
    \/ Poll
    \/ LoopCheckPrompts
    \/ LoopCheckRatelimit
    \/ NextUpdate
    \/ SkipUpdate
    \/ HandleCallback
    \/ HandleAttachment
    \/ HandleCommand
    \/ HandleText
    \/ FlushFiles
    \/ EndTick
    \/ Exit

Spec == Init /\ [][Next]_vars


(***************************************************************************)
(* Claims about the periodic checks.                                       *)
(***************************************************************************)
\* C1: the recovery notification goes out exactly once for each transition from
\* a screen showing the rate-limit signature to a screen without it (screens the
\* check evaluated: a capture that failed or is empty is no observation), never
\* in a check whose screen shows the signature, never before a rate-limit
\* screen was seen since startup; after it the state is not-limited.
RecoveryOncePerTransition ==
    [][act' = "check_for_ratelimit" =>
          /\ Recoveries(trace') = (IF rObs.sig /\ rObs'.kind = "clear" THEN 1 ELSE 0)
          /\ (rObs'.kind = "limited" => Recoveries(trace') = 0)
          /\ (Recoveries(trace') > 0 => rObs.ever /\ ~ratelimit_waiting')]_vars

\* a check that just announced the recovery
RecoveryAnnounced ==
    /\ act = "check_for_ratelimit"
    /\ rObs.kind = "clear" /\ rObs.ever
    /\ Recoveries(trace) = 1

\* C2: of two consecutive prompt checks whose screens parse to the same prompt
\* content (the first not already the announced one) exactly one emits a
\* notification; when the second content differs, the second check emits too.
PromptDedup ==
    [][(act' = "check_for_prompts" /\ pObs.kind = "prompt" /\ pObs.fresh
            /\ pObs'.kind = "prompt") =>
          /\ pObs.sent = 1
          /\ (pObs'.text = pObs.text => pObs'.sent = 0)
          /\ (pObs'.text # pObs.text => pObs'.sent = 1)]_vars

\* a prompt was announced, shown again unchanged and suppressed, and then announced
\* again with one character of an option label changed
DedupThenOneCharChange ==
    /\ act = "check_for_prompts"
    /\ pObs.kind = "prompt" /\ pObs.sent = 1
    /\ pObs.prevDup
    /\ pObs.oneChar

\* C3, as stated: after a prompt check whose captured screen lacks the
\* signature (empty or not), or passes the gate and yields no options,
\* last_prompt_hash is empty.
PromptHashClearedWheneverNoPrompt ==
    [][(act' = "check_for_prompts" /\ pObs'.kind \in {"empty", "nosig", "noopts"}) =>
          last_prompt_hash' = None]_vars

\* C3, amended: a captured screen that is not empty after stripping and lacks the
\* signature empties last_prompt_hash, and the next prompt, identical or not, is
\* announced; a failed or empty capture and a screen that passes the gate
\* without options leave last_prompt_hash as it was.
PromptHashClearedByVisibleScreenWithoutSignature ==
    [][act' = "check_for_prompts" =>
          /\ (pObs'.kind = "nosig" => last_prompt_hash' = None)
          /\ (pObs'.kind \in {"fail", "empty", "noopts"} =>
                  last_prompt_hash' = last_prompt_hash)
          /\ (pObs'.kind = "prompt" /\ last_prompt_hash = None => pObs'.sent = 1)]_vars

\* the prompt announced last was announced a second time
PromptReannounced ==
    /\ act = "check_for_prompts"
    /\ pObs.kind = "prompt" /\ pObs.again /\ pObs.sent = 1

\* C4: the rate-limit check that sees the signature gone empties
\* last_ratelimit_hash and sets ratelimit_waiting to false; a banner seen after
\* that, identical to the one announced before or not, is announced and sets
\* ratelimit_waiting again.
SignatureGoneResetsRatelimitState ==
    [][act' = "check_for_ratelimit" =>
          /\ (rObs'.kind = "clear" =>
                  last_ratelimit_hash' = None /\ ~ratelimit_waiting')
          /\ (rObs'.kind = "limited" /\ ~rObs.sig =>
                  /\ RatelimitEmissions(trace') = 1
                  /\ ratelimit_waiting'
                  /\ last_ratelimit_hash' = Md5(rObs'.content))]_vars

\* the banner announced last was announced a second time
BannerReannounced ==
    /\ act = "check_for_ratelimit"
    /\ rObs.kind = "limited" /\ rObs.again
    /\ RatelimitEmissions(trace) = 1 /\ ratelimit_waiting

(***************************************************************************)
(* Claims about the main loop.                                             *)
(***************************************************************************)
\* the calls of a step, by name
CallsNamed(tr, names) == {i \in 1..Len(tr) : tr[i].call \in names}

\* the literal-text injections of a step
Injections(tr) == Cardinality(CallsNamed(tr, {"send_keys_literal"}))

\* C5: the handling of an update whose chat id is not the configured one makes
\* no call at all (no send_keys, no Escape, no capture, no download, no command
\* handling, no reply, no callback answer) and changes nothing: the loop moves
\* on to the next update, the cursor having been advanced when the update was
\* taken.
UnauthorizedOnlyConsumed ==
    [][(pc = "handling" /\ ~updates[idx].auth /\ act' # "handle_signal") =>
          /\ trace' = <<>>
          /\ idx' = idx + 1
          /\ pc' = "updates"
          /\ UNCHANGED <<offset, pending_files, detectionVars, running, updates>>]_vars

UnauthorizedCommandConsumed ==
    /\ act = "skip_update"
    /\ tickLog # <<>>
    /\ tickLog[Len(tickLog)].ev = "unauthorized"
    /\ updates[idx - 1].kind = "text"
    /\ updates[idx - 1].text[1] = "/cmd"
    /\ trace = <<>>
    /\ offset = updates[idx - 1].update_id + 1

\* C6: the cursor never decreases, and no update id is handled more than once
\* over the whole run, ignored updates included, given a transport that returns
\* ids in ascending order and none below the cursor it was given.
CursorMonotoneHandledOnce ==
    [][/\ offset' >= offset
       /\ \A id \in 1..MaxUpdateId : handled'[id] <= 1]_vars

HandledAcrossTicks ==
    /\ handled[1] = 1
    /\ handled[MaxUpdateId] = 1
    /\ tickLog = <<Event(MaxUpdateId, "unauthorized")>>
    /\ offset = MaxUpdateId + 1

\* C7: no failure while handling an update stops the relay: the loop is never
\* left by an exception.
RelayNeverCrashes == pc # "crashed"

\* C8 as stated: every injection of a forwarded plain message and of a batch
\* of attachment references comes after a wait_for_input call of the same step.
EveryInjectionWaits ==
    [][act' \in {"inject_text", "flush_files"} =>
          \A i \in CallsNamed(trace', {"send_keys_literal"}) :
              \E j \in CallsNamed(trace', {"wait_for_input"}) : j < i]_vars

\* C8: the injection of a batch of attachment references comes after a
\* wait_for_input call with the 30 second timeout in the same step; a forwarded
\* plain message is injected at once, its step makes no wait_for_input call.
FilesWaitPlainTextDoesNot ==
    [][/\ act' = "flush_files" =>
             \A i \in CallsNamed(trace', {"send_keys_literal"}) :
                 \E j \in CallsNamed(trace', {"wait_for_input"}) :
                     j < i /\ trace'[j].text = <<ToString(WAIT_TIMEOUT)>>
       /\ act' = "inject_text" =>
             /\ CallsNamed(trace', {"wait_for_input"}) = {}
             /\ trace'[1].call = "send_keys_literal"]_vars

FilesInjectedAfterWait ==
    /\ act = "flush_files"
    /\ trace[1].call = "wait_for_input"
    /\ ~trace[1].ok
    /\ Injections(trace) = 1

\* C9: within a tick the updates are handled in the order the transport
\* delivered them; the steps that handle an attachment only download it (no
\* injection); the one injection of the attachments comes after every update
\* of the tick has been handled.
HandledInDeliveredOrder ==
    [][/\ \A k \in 1..Len(tickLog') :
              IF tickLog'[k].ev = "flush"
              THEN k = Len(updates') + 1 /\ k = Len(tickLog')
              ELSE k <= Len(updates') /\ tickLog'[k].id = updates'[k].update_id
       /\ act' = "download" => Injections(trace') = 0
       /\ act' = "flush_files" => idx' = Len(updates') + 1]_vars

AttachmentFlushedAfterLaterMessage ==
    /\ Len(tickLog) = 3
    /\ tickLog[1].ev = "download_ok"
    /\ tickLog[2].ev = "text"
    /\ tickLog[3].ev = "flush"
    /\ Injections(trace) = 1

\* C10: a tick that collected at least one attachment makes exactly one
\* injection for them at its end.
CollectedFilesInjectedOnce ==
    [][act' = "flush_files" => Injections(trace') = 1]_vars

\* the offline message of poll.py:577 is among the calls of a step
OfflineAttempted(tr) ==
    \E i \in 1..Len(tr) : tr[i].call = "send_message" /\ tr[i].text = <<"couchclaude offline">>

\* C11: the running flag is never set back; with the flag unset the test at the
\* top of the loop ends the loop; and whenever main leaves the loop the offline
\* message is attempted in that step.
LoopLeftOnlyWithOfflineNotice ==
    [][/\ running' => running
       /\ (pc = "loop" /\ ~running) => pc' = "done"
       /\ pc' = "polling" => running
       /\ (pc' \in {"done", "crashed"} /\ pc \notin {"done", "crashed"}) =>
              OfflineAttempted(trace')]_vars

\* C12 as stated: every iteration in which the interval has elapsed since the
\* last check runs the checks, whatever came of the long poll.
ChecksRunWheneverDue ==
    [][(act' = "get_updates" /\ now' - last_screen_check >= SCREEN_CHECK_INTERVAL) =>
          pc' = "prompts"]_vars

\* C12: an iteration whose get_updates returned, with updates or with none, runs
\* check_for_prompts and then check_for_ratelimit, each on a capture of its own,
\* when 5 seconds or more have passed since the last check, before any update
\* of the iteration is handled, and does not run them otherwise; the first
\* iteration whose get_updates returns runs them; an iteration whose get_updates
\* raised runs no check.
ChecksRunAfterSuccessfulPoll ==
    [][/\ (act' = "get_updates" /\ trace'[1].ok) =>
              IF now' - last_screen_check >= SCREEN_CHECK_INTERVAL
              THEN pc' = "prompts" /\ last_screen_check' = now'
              ELSE pc' = "updates" /\ last_screen_check' = last_screen_check
       /\ (act' = "get_updates" /\ trace'[1].ok /\ last_screen_check = 0) => pc' = "prompts"
       /\ (act' = "get_updates" /\ ~trace'[1].ok) =>
              pc' = "loop" /\ UNCHANGED <<last_screen_check, detectionVars>>
       /\ (pc = "prompts" /\ act' # "handle_signal") =>
              /\ act' = "check_for_prompts"
              /\ trace'[1].call = "capture_pane"
              /\ pc' = "ratelimit"
       /\ (pc = "ratelimit" /\ act' # "handle_signal") =>
              /\ act' = "check_for_ratelimit"
              /\ trace'[1].call = "capture_pane"
              /\ pc' = "updates"
       /\ pc' \in {"prompts", "ratelimit"} => idx' = 1 /\ tickLog' = <<>>]_vars

\* both checks have run in an iteration whose long poll returned nothing, and
\* not for the first time
ChecksRanWithoutUpdates ==
    /\ act = "check_for_ratelimit"
    /\ pc = "updates"
    /\ updates = <<>>
    /\ last_screen_check = now
    /\ now > SCREEN_CHECK_INTERVAL

(***************************************************************************)
(* notify.py: truncate_message (notify.py:75-83).                          *)
(***************************************************************************)
\* notify.py:79: "\n\n... [truncated] ...\n\n", the dots being one character
TRUNCATE_MARKER ==
    <<"\n", "\n", "U+2026", " ", "[", "t", "r", "u", "n", "c", "a", "t", "e", "d", "]",
      " ", "U+2026", "\n", "\n">>

\* a text of n characters, each one telling its place
TextOfLen(n) == [i \in 1..n |-> ToString(i)]

\* Python's t[:k] for k >= 0
PyPrefix(t, k) == SubSeq(t, 1, Min(k, Len(t)))

\* Python's t[-k:] for k >= 0: -0 is 0, and t[0:] is the whole of t
PySuffix(t, k) == IF k = 0 THEN t ELSE SubSeq(t, Len(t) - Min(k, Len(t)) + 1, Len(t))

truncate_message(text, max_length) ==
    IF Len(text) <= max_length THEN text
    ELSE LET available == max_length - Len(TRUNCATE_MARKER)
             head == (available * 2) \div 3
             tail == available - head
         IN  PyPrefix(text, head) \o TRUNCATE_MARKER \o PySuffix(text, tail)

\* the inputs: every text length up to MaxTextLen, every maximum from the
\* length of the marker up to MaxLimit
TruncateInputs ==
    {[text |-> TextOfLen(n), max_length |-> L] :
        n \in 0..MaxTextLen, L \in Len(TRUNCATE_MARKER)..MaxLimit}

InitTruncate ==
    /\ InitProgram
    /\ input \in TruncateInputs
    /\ output = <<>>

ApplyTruncate ==
    /\ act = "init"
    /\ act' = "truncate_message"
    /\ output' = truncate_message(input.text, input.max_length)
    /\ UNCHANGED <<loopVars, detectionVars, trace, pObs, rObs, input>>

NextTruncate == ApplyTruncate

SpecTruncate == InitTruncate /\ [][NextTruncate]_vars

\* C13: for a maximum L no smaller than the marker, the result of
\* truncate_message(text, L) has at most L characters; a text of at most L
\* characters comes back unchanged; a longer one comes back as a non-empty
\* prefix of it, the marker, and a non-empty suffix of it.
TruncationLaw ==
    act = "truncate_message" =>
        LET t == input.text
            L == input.max_length
        IN  /\ Len(output) <= L
            /\ Len(t) <= L => output = t
            /\ Len(t) > L =>
                   \E h \in 1..Len(t), k \in 1..Len(t) :
                       output = SubSeq(t, 1, h) \o TRUNCATE_MARKER
                                \o SubSeq(t, Len(t) - k + 1, Len(t))

(***************************************************************************)
(* The lengths, in characters, of the notifications of the two checks      *)
(* (poll.py:362-381 and 428-441), as functions of the length of the text   *)
(* taken from the screen.                                                  *)
(***************************************************************************)
\* msg[:4000] on lengths
TruncatedLen(n) == Min(n, MAX_MESSAGE_LEN)

\* poll.py:428-430: the header with its markup, the prompt text, cut to 4000
PromptMsgLen(n) == TruncatedLen(PROMPT_HEAD_LEN + n)

\* poll.py:439: the header without markup and the prompt text
PromptFallbackLen(n) == PROMPT_PLAIN_HEAD_LEN + n

\* poll.py:362-370: the header, the content, the reset line if one was found
RatelimitMsgLen(n, r) ==
    TruncatedLen(RATELIMIT_HEAD_LEN + n + (IF r > 0 THEN RESET_HEAD_LEN + r ELSE 0))

\* the lengths of the text taken from the screen, around the limit, and of the
\* fragment RESET_TIME_RE finds (0: none)
LengthInputs ==
    [n : (MAX_MESSAGE_LEN - LenWindow)..(MAX_MESSAGE_LEN + LenWindow), r : {0, 40}]

InitLengths ==
    /\ InitProgram
    /\ input \in LengthInputs
    /\ output = <<>>

\* the formatted message of check_for_prompts and the plain one sent when
\* the formatted send raised
PromptLengths ==
    /\ act = "init"
    /\ act' = "prompt_lengths"
    /\ output' = [formatted |-> PromptMsgLen(input.n), fallback |-> PromptFallbackLen(input.n)]
    /\ UNCHANGED <<loopVars, detectionVars, trace, pObs, rObs, input>>

\* the formatted message of check_for_ratelimit; the plain send repeats it
RatelimitLengths ==
    /\ act = "init"
    /\ act' = "ratelimit_lengths"
    /\ output' = [formatted |-> RatelimitMsgLen(input.n, input.r),
                  fallback |-> RatelimitMsgLen(input.n, input.r)]
    /\ UNCHANGED <<loopVars, detectionVars, trace, pObs, rObs, input>>

NextLengths == PromptLengths \/ RatelimitLengths

SpecLengths == InitLengths /\ [][NextLengths]_vars

\* C14: every prompt notification and every rate-limit notification has at
\* most 4000 characters, the formatted one and the plain fallback alike.
NotificationsWithinLimit ==
    act \in {"prompt_lengths", "ratelimit_lengths"} =>
        output.formatted <= 4000 /\ output.fallback <= 4000

\* C15: a prompt check whose screen shows none of the phrases of
\* PROMPT_DETECT_RE makes no call but the capture, whatever the number of
\* option lines on the screen: nothing is sent, the screen is not taken for a
\* prompt, and no digest is stored.
CoarseGate ==
    [][(act' = "check_for_prompts" /\ ~pObs'.sig) =>
          /\ pObs'.kind \in {"fail", "empty", "nosig"}
          /\ trace' = <<CapturePane(pObs'.kind # "fail")>>
          /\ last_prompt_hash' \in {None, last_prompt_hash}]_vars

OptionsWithoutChromeIgnored ==
    /\ act = "check_for_prompts"
    /\ ~pObs.sig
    /\ pObs.nopts = MaxScreenLines
    /\ trace = <<CapturePane(TRUE)>>

(***************************************************************************)
(* parse_prompt_parts on its own: any screen of a few lines.               *)
(***************************************************************************)
\* the lines parse_prompt_parts tells apart
ParseAlphabet == {BlankLine, SepLine, ChromeLine, TextLine, OptYes, OptNo}

ParseScreens == SeqsUpTo(ParseAlphabet, MaxParseLines)

InitParse ==
    /\ InitProgram
    /\ input \in ParseScreens
    /\ output = <<>>

ApplyParse ==
    /\ act = "init"
    /\ act' = "parse_prompt_parts"
    /\ output' = parse_prompt_parts(input)
    /\ UNCHANGED <<loopVars, detectionVars, trace, pObs, rObs, input>>

NextParse == ApplyParse

SpecParse == InitParse /\ [][NextParse]_vars

\* C16: the options parse_prompt_parts returns are the option lines of the
\* screen, one for one and in screen order, each with the number its line
\* shows; blank, separator and chrome lines give no option; a screen without
\* an option line gives no prompt.
OptionsInScreenOrder ==
    act = "parse_prompt_parts" =>
        LET at == {i \in 1..Len(input) : input[i].kind = "opt"}
        IN  /\ output.found <=> at # {}
            /\ at = {} => output = NoPrompt
            /\ Len(output.options) = Cardinality(at)
            /\ \A i \in at :
                   output.options[Cardinality({j \in at : j <= i})]
                       = <<input[i].num, ".", " ">> \o input[i].body

OptionsOutOfNumericOrderKept ==
    /\ act = "parse_prompt_parts"
    /\ input = <<OptNo, OptYes, OptNo>>
    /\ output.options = <<<<"2", ".", " ", "N", "o">>, <<"1", ".", " ", "Y", "e", "s">>,
                          <<"2", ".", " ", "N", "o">>>>

(***************************************************************************)
(* check_for_prompts on a permission prompt with up to MaxOptions options. *)
(***************************************************************************)
ButtonScreens == {<<AllowLine>> \o opts : opts \in SeqsUpTo({OptYes, OptNo}, MaxOptions)}

InitButtons ==
    /\ InitProgram
    /\ input \in ButtonScreens
    /\ output = <<>>

\* the first check of the run sees the screen
ButtonsCheck ==
    /\ act = "init"
    /\ \E oks \in SendOutcomes : check_for_prompts(Captured(input), oks[1], oks[2])
    /\ UNCHANGED <<loopVars, last_ratelimit_hash, ratelimit_waiting, pObs, rObs, fnVars>>

NextButtons == ButtonsCheck

SpecButtons == InitButtons /\ [][NextButtons]_vars

\* C17: the notification of a prompt with n options is handed to
\* send_message_with_buttons with n buttons in option order; button i carries
\* the number of option i as its payload, and as its label the i-th emoji of
\* the palette (the fallback glyph from the ninth button on), a space and the
\* label of option i.
ButtonsMatchOptions ==
    act = "check_for_prompts" =>
        LET n == Len(input) - 1
        IN  n >= 1 =>
                /\ trace[2].call = "send_message_with_buttons"
                /\ Len(trace[2].buttons) = n
                /\ \A i \in 1..n :
                       trace[2].buttons[i] =
                           [text |-> <<IF i <= 8 THEN BtnEmojis[i] ELSE FallbackEmoji, " ">>
                                     \o input[i + 1].body,
                            callback_data |-> <<input[i + 1].num>>]

NinthButtonHasFallbackGlyph ==
    /\ act = "check_for_prompts"
    /\ Len(input) = 10
    /\ Len(trace[2].buttons) = 9
    /\ trace[2].buttons[8].text[1] = "U+2699"
    /\ trace[2].buttons[9].text[1] = "U+25B6"

(***************************************************************************)
(* The text send_files_to_claude composes (poll.py:159-175), for any batch *)
(* of up to MaxFiles files.                                                *)
(***************************************************************************)
FilePaths == {"/dl/photo_1.jpg", "/dl/notes.pdf", "/dl/photo_2.png"}

FileCaptions == {<<>>, <<"look at this">>, <<"fix it">>}

FileBatches ==
    UNION {[1..k -> [path : FilePaths, caption : FileCaptions]] : k \in 1..MaxFiles}

InitFiles ==
    /\ InitProgram
    /\ input \in FileBatches
    /\ output = <<>>

ComposeFilesPrompt ==
    /\ act = "init"
    /\ act' = "compose_files_prompt"
    /\ output' = FilesPrompt(input)
    /\ UNCHANGED <<loopVars, detectionVars, trace, pObs, rObs, input>>

NextFiles == ComposeFilesPrompt

SpecFiles == InitFiles /\ [][NextFiles]_vars

\* C18: the composed text names the path of every file of the batch, in
\* arrival order; with at least one caption it begins with the captions joined
\* by " | " and the paths follow in parentheses; with none it is the generic
\* sentence listing the paths; the wording is singular exactly for a batch of
\* one file.
FilesPromptLaw ==
    act = "compose_files_prompt" =>
        LET n == Len(input)
            named == SelectIdx(output, FilePaths, 1)
            captioned == {i \in 1..n : input[i].caption # <<>>}
            joined == JoinWith(" | ", [k \in 1..Cardinality(captioned) |->
                          input[CHOOSE i \in captioned :
                                    Cardinality({j \in captioned : j <= i}) = k].caption])
            atoms == {output[i] : i \in 1..Len(output)}
            singular == {"\n\n(Image attached from Telegram, saved at: ",
                         "The user sent a file from Telegram. View it at: "}
            plural == {" files attached from Telegram, saved at: ",
                       " files from Telegram. View them at: "}
        IN  /\ [k \in 1..Len(named) |-> output[named[k]]] = [i \in 1..n |-> input[i].path]
            /\ captioned # {} =>
                   /\ SubSeq(output, 1, Len(joined)) = joined
                   /\ output[Len(joined) + 1] \in
                          {"\n\n(", "\n\n(Image attached from Telegram, saved at: "}
                   /\ output[Len(output)] = ")"
            /\ captioned = {} =>
                   output[1] \in {"The user sent a file from Telegram. View it at: ",
                                  "The user sent "}
            /\ (n = 1) <=> (atoms \cap singular # {})
            /\ (n > 1) <=> (atoms \cap plural # {} /\ ToString(n) \in atoms)

TwoCaptionedFilesComposed ==
    /\ act = "compose_files_prompt"
    /\ input = <<[path |-> "/dl/photo_1.jpg", caption |-> <<"look at this">>],
                 [path |-> "/dl/notes.pdf", caption |-> <<>>],
                 [path |-> "/dl/photo_2.png", caption |-> <<"fix it">>]>>
    /\ output = <<"look at this", " | ", "fix it", "\n\n(", "3",
                  " files attached from Telegram, saved at: ",
                  "/dl/photo_1.jpg", " and ", "/dl/notes.pdf", " and ", "/dl/photo_2.png", ")">>

(***************************************************************************)
(* sanitize_text character by character (poll.py:213-244).                *)
(* The characters: ESC (\x1b) and BEL (\x07) are control characters; "0"   *)
(* stands for the digits, "m" for the letters.                             *)
(***************************************************************************)
SanitizeAlphabet == {"ESC", "BEL", "[", "]", "(", "0", "m", "\n"}

\* [0-9;]
IsParam(c) == c = "0"

\* [a-zA-Z]
IsLetter(c) == c = "m"

\* [0-9A-B]
IsCharsetFinal(c) == c = "0"

\* unicodedata.category(ch) starts with "C", and ch is neither "\n" nor "\t"
IsControl(c) == c \in {"ESC", "BEL"}

RECURSIVE SkipParams(_, _)
\* [0-9;]* from position j on: the first position it does not take
SkipParams(t, j) == IF j <= Len(t) /\ IsParam(t[j]) THEN SkipParams(t, j + 1) ELSE j

RECURSIVE FirstBel(_, _)
\* .*?\x07 from position j on: the position of the BEL, 0 if a line break or the
\* end of the text comes first
FirstBel(t, j) ==
    IF j > Len(t) \/ t[j] = "\n" THEN 0
    ELSE IF t[j] = "BEL" THEN j
    ELSE FirstBel(t, j + 1)

\* ANSI_RE matched at position i: the position of the last character of the
\* match, 0 if there is no match at i
ANSI_RE(t, i) ==
    IF t[i] # "ESC" \/ i + 1 > Len(t) THEN 0
    ELSE IF t[i + 1] = "["
         THEN LET j == SkipParams(t, i + 2)
              IN  IF j <= Len(t) /\ IsLetter(t[j]) THEN j ELSE 0
    ELSE IF t[i + 1] = "]" THEN FirstBel(t, i + 2)
    ELSE IF t[i + 1] = "(" /\ i + 2 <= Len(t) /\ IsCharsetFinal(t[i + 2]) THEN i + 2
    ELSE 0

RECURSIVE AnsiSub(_, _)
\* ANSI_RE.sub("", text) from position i on: the matches go, left to right
AnsiSub(t, i) ==
    IF i > Len(t) THEN <<>>
    ELSE IF ANSI_RE(t, i) > 0 THEN AnsiSub(t, ANSI_RE(t, i) + 1)
    ELSE <<t[i]>> \o AnsiSub(t, i + 1)

RECURSIVE DropFirstControl(_)
\* only the first control character goes
DropFirstControl(t) ==
    IF t = <<>> THEN t
    ELSE IF IsControl(Head(t)) THEN Tail(t)
    ELSE <<Head(t)>> \o DropFirstControl(Tail(t))

RECURSIVE DropControl(_)
\* poll.py:240-243
DropControl(t) ==
    IF t = <<>> THEN t
    ELSE IF IsControl(Head(t)) THEN DropControl(Tail(t))
    ELSE <<Head(t)>> \o DropControl(Tail(t))

\* sanitize_text on characters
SanitizeChars(t) == DropControl(AnsiSub(t, 1))

InitSanitize ==
    /\ InitProgram
    /\ input \in SeqsUpTo(SanitizeAlphabet, MaxChars)
    /\ output = <<>>

ApplySanitize ==
    /\ act = "init"
    /\ act' = "sanitize_text"
    /\ output' = [once |-> SanitizeChars(input), twice |-> SanitizeChars(SanitizeChars(input))]
    /\ UNCHANGED <<loopVars, detectionVars, trace, pObs, rObs, input>>

NextSanitize == ApplySanitize

SpecSanitize == InitSanitize /\ [][NextSanitize]_vars

\* C19: sanitize_text(sanitize_text(t)) = sanitize_text(t) for every text t.
SanitizeIdempotent == act = "sanitize_text" => output.twice = output.once

\* the first pass leaves "[m" behind, the tail of an escape sequence whose
\* start was broken by a control character, and the second pass keeps it
BrokenSequenceTailSurvivesBothPasses ==
    /\ act = "sanitize_text"
    /\ input = <<"ESC", "BEL", "[", "m">>
    /\ output.once = <<"[", "m">>
    /\ output.twice = <<"[", "m">>

\* C20 as stated: while update u is being handled the cursor is not yet
\* greater than the id of u.
CursorNotPastUpdateInHandling ==
    pc = "handling" => offset <= updates[idx].update_id

\* C20: the cursor is set to the id of u plus one when the loop takes u, in a
\* step that makes no call and handles nothing; the handling of u comes after
\* that step, finds the cursor at the id of u plus one and leaves it there.
CursorMovedBeforeHandling ==
    [][/\ (pc = "updates" /\ pc' = "handling") =>
              /\ offset' = updates[idx].update_id + 1
              /\ trace' = <<>>
              /\ UNCHANGED <<idx, handled, tickLog, pending_files>>
       /\ (pc = "handling" /\ act' # "handle_signal") =>
              /\ offset = updates[idx].update_id + 1
              /\ offset' = offset
              /\ handled'[updates[idx].update_id] = handled[updates[idx].update_id] + 1
              /\ Len(tickLog') = Len(tickLog) + 1]_vars

CursorAheadOfUnhandledMessage ==
    /\ pc = "handling"
    /\ updates[idx].kind = "text"
    /\ updates[idx].auth
    /\ updates[idx].text = <<"hello">>
    /\ handled[updates[idx].update_id] = 0
    /\ offset = updates[idx].update_id + 1

(***************************************************************************)
(* Claims about failures and replies.                                      *)
(***************************************************************************)
\* C21: whatever fails in check_for_prompts, in check_for_ratelimit (the
\* capture, the formatted send, the plain send) or in handle_command (the
\* terminal, the reply, the error reply), the step ends normally: the running
\* flag is as it was and the loop goes on with its next step, the rate-limit
\* check after the prompt check, the updates after the rate-limit check, the
\* next update after a command.
FailuresStayLocal ==
    [][/\ act' = "check_for_prompts" => pc' = "ratelimit" /\ running' = running
       /\ act' = "check_for_ratelimit" => pc' = "updates" /\ running' = running
       /\ act' = "handle_command" =>
              pc' = "updates" /\ running' = running /\ idx' = idx + 1]_vars

\* a command whose injection failed and whose error reply failed too, and the
\* loop is at the next update
CommandFailureLogged ==
    /\ act = "handle_command"
    /\ Len(trace) = 2
    /\ trace[1].call = "send_keys_literal" /\ ~trace[1].ok
    /\ trace[2].call = "send_message" /\ trace[2].text = ErrorMsg /\ ~trace[2].ok
    /\ pc = "updates" /\ running

\* C22: a flush whose wait_for_input timed out sends the warning to the chat
\* and still makes the injection of the batch, whether the warning was
\* delivered or not.
TimedOutWaitStillInjects ==
    [][(act' = "flush_files" /\ trace'[1].call = "wait_for_input" /\ ~trace'[1].ok) =>
          /\ trace'[2].call = "send_message"
          /\ trace'[2].text = <<"(!) Claude not at input prompt, file may need manual Enter">>
          /\ Injections(trace') = 1]_vars

\* a notification of the step reached the chat
Delivered(tr) ==
    \E i \in 1..Len(tr) :
        tr[i].call \in {"send_message", "send_message_with_buttons"} /\ tr[i].ok

\* C23: a check stores a new digest only when a notification reached the chat,
\* by the formatted send or by the plain one; when both failed the stored
\* digest is the one from before the check, so that the next check of the same
\* screen tries again.
HashStoredOnlyOnDelivery ==
    [][/\ (act' = "check_for_prompts" /\ last_prompt_hash' \notin {None, last_prompt_hash}) =>
              Delivered(trace')
       /\ (act' = "check_for_ratelimit"
               /\ last_ratelimit_hash' \notin {None, last_ratelimit_hash}) =>
              Delivered(trace')]_vars

(***************************************************************************)
(* The text of one message of the authorized chat, as main dispatches it   *)
(* (poll.py:542-565).                                                      *)
(***************************************************************************)
\* a command word, whitespace, the rest of the text; text.strip() has removed
\* whitespace at the end of the text, so <<word, " ">> has no argument
MessageTexts ==
    { <<"/">>, <<"/bogus">>, <<"/bogus", " ", "x">>,
      <<"/cd">>, <<"/cd", " ">>, <<"/cmd">>, <<"/cmd", " ">>,
      <<"/cd", " ", "/tmp">>, <<"/CD", " ", "/tmp">>, <<"/cd", " ", "my project">>,
      <<"/cmd", " ", "ls -la">>, <<"/CMD", " ", "ls -la">>, <<"/cmd", " ", "/bogus">>,
      <<"/esc">>, <<"/Esc", " ", "now">>,
      <<"/ping">>, <<"/help">>, <<"/status">>, <<"/view">>, <<"/screen">>,
      <<"hello">> }

InitDispatch ==
    /\ InitProgram
    /\ input \in MessageTexts
    /\ output = <<>>

\* poll.py:549-565
DispatchText ==
    /\ act = "init"
    /\ act' = "dispatch_text"
    /\ \E w \in Worlds, sc \in LoopScreens :
           LET Sent == SendMessage(<<"Sent to Claude">>, "HTML", TRUE)
               NotSent == SendMessage(<<"(x) Could not send: ", "e">>, "HTML", TRUE)
               r == IF StartsWithSlash(input)
                    THEN LoggedOnly(handle_command(input, sc, w))
                    ELSE TryThenReply(InjectAndSnapshot(input, w), Sent, NotSent, w.s1, w.s2)
           IN  /\ trace' = r.calls
               /\ output' = [raised |-> r.raised]
    /\ UNCHANGED <<loopVars, detectionVars, pObs, rObs, input>>

SpecDispatch == InitDispatch /\ [][DispatchText]_vars

\* the calls of a step that write to the terminal
TerminalWrites(tr) ==
    CallsNamed(tr, {"send_keys_literal", "send_keys_enter", "send_keys_escape"})

\* C24: a message whose text begins with "/" is never injected as it is.
\* /esc makes one Escape keystroke and nothing else; /cd with a path injects
\* "cd <path>" and /cmd with a text injects that text (literal, then Enter),
\* nothing else; the command word counts in any case of its letters; every
\* other text beginning with "/" (an unknown command, "/" alone, /cd or /cmd
\* without an argument, the commands that only read) writes nothing to the
\* terminal.
SlashTextWritesOnlyByCommand ==
    (act = "dispatch_text" /\ input[1] # "hello") =>
        LET word == input[1]
            hasArg == Len(input) = 3
            writes == TerminalWrites(trace)
            literals == CallsNamed(trace, {"send_keys_literal"})
        IN  /\ \A i \in literals : trace[i].text # input
            /\ word \in {"/esc", "/Esc"} =>
                   /\ Cardinality(writes) = 1
                   /\ trace[1].call = "send_keys_escape"
            /\ (word \in {"/cd", "/CD"} /\ hasArg) =>
                   /\ literals = {1} /\ writes \subseteq {1, 2}
                   /\ trace[1] \in {Literal(<<"cd ", input[3]>>, TRUE),
                                    Literal(<<"cd ", input[3]>>, FALSE)}
                   /\ 2 \in writes => trace[2].call = "send_keys_enter"
            /\ (word \in {"/cmd", "/CMD"} /\ hasArg) =>
                   /\ literals = {1} /\ writes \subseteq {1, 2}
                   /\ trace[1] \in {Literal(<<input[3]>>, TRUE), Literal(<<input[3]>>, FALSE)}
                   /\ 2 \in writes => trace[2].call = "send_keys_enter"
            /\ ~(\/ word \in {"/esc", "/Esc"}
                 \/ word \in {"/cd", "/CD", "/cmd", "/CMD"} /\ hasArg) =>
                   writes = {}

\* /CD with a path has injected "cd <path>" and Enter
UppercaseCdInjected ==
    /\ act = "dispatch_text"
    /\ input = <<"/CD", " ", "/tmp">>
    /\ Len(trace) >= 2
    /\ trace[1] = Literal(<<"cd ", "/tmp">>, TRUE)
    /\ trace[2] = EnterKey(TRUE)

\* the injection of a step went through: the literal text and the Enter key
InjectionSucceeded(tr) ==
    /\ Len(tr) >= 2
    /\ tr[1].call = "send_keys_literal" /\ tr[1].ok
    /\ tr[2].call = "send_keys_enter" /\ tr[2].ok

\* the acknowledgements of a step that report an error
ErrorAcks(tr) ==
    {i \in CallsNamed(tr, {"answer_callback_query"}) : tr[i].text = ErrorMsg}

\* C25: a button press of the authorized chat injects its payload as literal
\* text, then Enter; an acknowledgement is attempted whether the injection
\* succeeded or failed; an acknowledgement reporting an error is issued only
\* when the injection failed.
CallbackAckMatchesInjection ==
    [][act' = "handle_callback" =>
          /\ trace'[1].call = "send_keys_literal"
          /\ trace'[1].text = updates[idx].text
          /\ trace'[1].ok => trace'[2].call = "send_keys_enter"
          /\ CallsNamed(trace', {"answer_callback_query"}) # {}
          /\ ErrorAcks(trace') # {} => ~InjectionSucceeded(trace')]_vars

\* the replies of a step with the given first part of the text
RepliesWith(tr, head) ==
    {i \in CallsNamed(tr, {"send_message"}) : tr[i].text[1] = head}

\* C26: for a plain message of the authorized chat, "Could not send" is
\* replied only when the injection failed, and "Sent to Claude" only after the
\* text and Enter went through; an injected message is never reported as not
\* sent.
TextReplyMatchesInjection ==
    [][act' = "inject_text" =>
          /\ RepliesWith(trace', "(x) Could not send: ") # {} => ~InjectionSucceeded(trace')
          /\ RepliesWith(trace', "Sent to Claude") # {} => InjectionSucceeded(trace')]_vars

\* the places of a step's calls where an injection went through: the literal
\* text, and the Enter key right after it
SucceededInjections(tr) ==
    {i \in CallsNamed(tr, {"send_keys_literal"}) :
        /\ tr[i].ok
        /\ i + 1 <= Len(tr) /\ tr[i + 1].call = "send_keys_enter" /\ tr[i + 1].ok}

\* a call that tells the chat that the injection went through
IsConfirmation(c) ==
    /\ c.call \in {"send_message", "answer_callback_query"}
    /\ \/ c.text[1] \in {"Sent to Claude", "Sent: ", "Sent: cd ", "Photo sent to Claude"}
       \/ Len(c.text) = 2 /\ c.text[2] = " files sent to Claude"

\* C27: in the step of a plain message, of a flush of attachments, of a button
\* press and of a command, every injection that went through is followed at
\* once by the attempt to save the pane, and the call after that is the
\* confirmation to the chat, whether the pane could be saved or not; all of it
\* in the step of the injection, before the next update is taken.
SnapshotAfterInjection ==
    act \in {"inject_text", "flush_files", "handle_callback", "handle_command"} =>
        \A i \in SucceededInjections(trace) :
            /\ Len(trace) >= i + 3
            /\ trace[i + 2].call = "save_snapshot"
            /\ IsConfirmation(trace[i + 3])
            /\ \A j \in 1..(i + 2) : ~IsConfirmation(trace[j])

\* /cd was injected, the pane could not be saved, and the confirmation went out
SnapshotFailureSwallowed ==
    /\ act = "handle_command"
    /\ trace = <<Literal(<<"cd ", "/tmp">>, TRUE), EnterKey(TRUE), Snapshot(FALSE),
                 SendMessage(<<"Sent: cd ", "/tmp">>, "HTML", TRUE)>>
    /\ pc = "updates"

(***************************************************************************)
(* send_keys on its own (tmux_utils.py:50-65): any text, with and without  *)
(* Enter, any outcome of the two tmux commands.                            *)
(***************************************************************************)
KeysTexts == SeqsUpTo({"l", "s", "\n"}, MaxKeys)

InitSendKeys ==
    /\ InitProgram
    /\ input \in [text : KeysTexts, enter : BOOLEAN, k : KeysOutcomes]
    /\ output = <<>>

ApplySendKeys ==
    /\ act = "init"
    /\ act' = "send_keys"
    /\ output' = SendKeys(input.text, input.enter, input.k)
    /\ UNCHANGED <<loopVars, detectionVars, trace, pObs, rObs, input>>

SpecSendKeys == InitSendKeys /\ [][ApplySendKeys]_vars

\* C28: send_keys makes the literal send first, with the text as given, and
\* the Enter keystroke second and only when enter is true and the literal send
\* succeeded; it makes no other call; it raises exactly when the literal send
\* failed (and then no Enter was sent) or the Enter send failed.
LiteralThenEnter ==
    act = "send_keys" =>
        LET calls == output.calls
        IN  /\ Len(calls) \in {1, 2}
            /\ calls[1].call = "send_keys_literal" /\ calls[1].text = input.text
            /\ Len(calls) = 2 <=> (input.enter /\ calls[1].ok)
            /\ Len(calls) = 2 => calls[2].call = "send_keys_enter"
            /\ output.raised <=> (\E i \in 1..Len(calls) : ~calls[i].ok)
            /\ ~calls[1].ok => output.raised /\ Len(calls) = 1

\* the literal send failed with enter set: an error, and no Enter keystroke
LiteralFailureSkipsEnter ==
    /\ act = "send_keys"
    /\ input.enter /\ input.k = "literal_failed" /\ input.text = <<"l", "s">>
    /\ output = Ran(<<Literal(<<"l", "s">>, FALSE)>>, TRUE)

(***************************************************************************)
(* wait_for_input (tmux_utils.py:32-47), one poll of the pane per step.    *)
(* Time is counted in seconds from the call; `output` is the position of   *)
(* the function: the clock t, the deadline, the number of captures made,   *)
(* what the last capture showed, and the value returned.                   *)
(***************************************************************************)
\* the input prompt glyph alone on its line
MarkerLine == Line("> ", "marker", "", <<>>, 0, "")

\* the glyph at the start of any line will do
PromptGlyphAnywhere(l) == l.lead = "> "

\* INPUT_PROMPT_RE (tmux_utils.py:33) on one line
INPUT_PROMPT_RE(l) == l.kind = "marker"

\* INPUT_PROMPT_RE.search(screen)
InputVisible(screen) == \E i \in 1..Len(screen) : INPUT_PROMPT_RE(screen[i])

WaitCaptures ==
    {CaptureFailed} \cup
    {Captured(sc) : sc \in {<<>>, <<TextLine>>, <<AllowLine, OptYes, OptNo>>,
                            <<TextLine, MarkerLine>>, <<MarkerLine, BlankLine>>}}

\* what the clock shows after capture_pane and time.sleep(1): a second or more later
SleepChoices == {1, 2}

Waiting(t, deadline, polls, last) ==
    [pc |-> "loop", t |-> t, deadline |-> deadline, polls |-> polls, last |-> last,
     found |-> FALSE]

Returned(w, last, found) == [w EXCEPT !.pc = "returned", !.last = last, !.found = found]

InitWait ==
    /\ InitProgram
    /\ input \in 0..MaxWait
    /\ output = <<>>

\* tmux_utils.py:38: the deadline is set; no screen has been seen yet
WaitStart ==
    /\ act = "init"
    /\ act' = "wait_start"
    /\ output' = Waiting(0, input, 0, CaptureFailed)
    /\ UNCHANGED <<loopVars, detectionVars, trace, pObs, rObs, input>>

\* tmux_utils.py:39-46: the deadline has not come; one capture, then a return or a sleep
WaitPoll ==
    /\ act # "init"
    /\ output.pc = "loop" /\ output.t < output.deadline
    /\ act' = "wait_poll"
    /\ \E cap \in WaitCaptures :
           /\ trace' = <<CapturePane(cap.ok)>>
           /\ IF cap.ok /\ InputVisible(cap.screen)
              THEN output' = Returned([output EXCEPT !.polls = @ + 1], cap, TRUE)
              ELSE \E d \in SleepChoices :
                       output' = Waiting(output.t + d, output.deadline, output.polls + 1, cap)
    /\ UNCHANGED <<loopVars, detectionVars, pObs, rObs, input>>

\* tmux_utils.py:39 and 47: the deadline has come
WaitTimeout ==
    /\ act # "init"
    /\ output.pc = "loop" /\ output.t >= output.deadline
    /\ act' = "wait_timeout"
    /\ trace' = <<>>
    /\ output' = Returned(output, output.last, FALSE)
    /\ UNCHANGED <<loopVars, detectionVars, pObs, rObs, input>>

NextWait == WaitStart \/ WaitPoll \/ WaitTimeout

\* the function is sequential code: its next statement is always taken
SpecWait == InitWait /\ [][NextWait]_vars /\ WF_vars(NextWait)

\* a capture that shows a line holding nothing but the prompt glyph
ShowsBareMarker(cap) ==
    cap.ok /\ \E i \in 1..Len(cap.screen) :
                  cap.screen[i].lead = "> " /\ cap.screen[i].body = <<>>

WaitAnswerRight ==
    act \in {"wait_poll", "wait_timeout"} =>
        /\ output.pc = "returned" /\ output.found =>
               act = "wait_poll" /\ ShowsBareMarker(output.last)
        /\ output.pc = "returned" /\ ~output.found =>
               act = "wait_timeout" /\ output.t >= output.deadline
        /\ (act = "wait_poll" /\ ShowsBareMarker(output.last)) =>
               output.pc = "returned" /\ output.found
        /\ (act = "wait_poll" /\ ~ShowsBareMarker(output.last)) =>
               output.pc = "loop" /\ output.t <= output.deadline + 1

WaitReturned == act # "init" /\ output.pc = "returned"

\* C29: wait_for_input returns in the end, whatever the captures show and
\* whichever of them fail; it returns True in the step whose capture shows a
\* line holding only the prompt glyph, and only then; it returns False once the
\* deadline has come, and only then; a capture that fails or shows no such
\* line is followed by a sleep and the next test of the deadline.
WaitTerminatesWithAnswer == []WaitAnswerRight /\ <>WaitReturned

\* the wait ran into its deadline after more than one capture, the last of
\* which failed
WaitTimedOutAfterFailedCapture ==
    /\ act = "wait_timeout"
    /\ output.pc = "returned" /\ ~output.found
    /\ output.polls >= 2
    /\ output.last = CaptureFailed

\* C30: at startup and after every call of check_for_ratelimit,
\* ratelimit_waiting is set exactly when last_ratelimit_hash holds a digest;
\* no state has one without the other.
WaitingIffHashStored == ratelimit_waiting <=> last_ratelimit_hash # None

\* a banner was seen and no notification could be delivered: both are set
BothSetThoughUndelivered ==
    /\ act = "check_for_ratelimit"
    /\ rObs.kind = "limited"
    /\ Len(trace) = 3 /\ ~trace[2].ok /\ ~trace[3].ok
    /\ ratelimit_waiting
    /\ last_ratelimit_hash = Md5(rObs.content)

(***************************************************************************)
(* The two checks in any order, on captures that fail, that show nothing,  *)
(* and that show something; `input` holds the capture of the last check.   *)
(***************************************************************************)
CheckCaptures ==
    {CaptureFailed} \cup
    {Captured(sc) : sc \in {<<>>, <<BlankLine>>, <<BlankLine, BlankLine>>, <<CtrlLine>>,
                            <<BlankLine, CtrlLine>>, <<TextLine>>,
                            <<AllowLine, OptYes, OptNo>>, <<LimitA>>}}

InitChecks ==
    /\ InitProgram
    /\ input = CaptureFailed
    /\ output = <<>>

AnyPromptCheck ==
    \E cap \in CheckCaptures, oks \in SendOutcomes :
        /\ check_for_prompts(cap, oks[1], oks[2])
        /\ ObservePrompt(cap)
        /\ input' = cap
        /\ UNCHANGED <<loopVars, ratelimitVars, output>>

AnyRatelimitCheck ==
    \E cap \in CheckCaptures, oks \in SendOutcomes :
        /\ check_for_ratelimit(cap, oks[1], oks[2])
        /\ ObserveRatelimit(cap)
        /\ input' = cap
        /\ UNCHANGED <<loopVars, promptVars, output>>

NextChecks == AnyPromptCheck \/ AnyRatelimitCheck

SpecChecks == InitChecks /\ [][NextChecks]_vars

\* every line of the capture is whitespace, or one of the given kinds
OnlyLinesOf(cap, kinds) ==
    \A i \in 1..Len(cap.screen) : cap.screen[i].kind \in kinds

\* C31: a check whose capture failed, or whose screen is empty after the
\* stripping the check does (check_for_prompts strips the capture as it came,
\* check_for_ratelimit strips it after sanitizing), makes no call but the
\* capture and leaves last_prompt_hash, last_ratelimit_hash and
\* ratelimit_waiting as they were.
BlindCheckChangesNothing ==
    [][/\ (act' = "check_for_prompts"
               /\ (~input'.ok \/ OnlyLinesOf(input', {"blank"}))) =>
              /\ trace' = <<CapturePane(input'.ok)>>
              /\ UNCHANGED detectionVars
       /\ (act' = "check_for_ratelimit"
               /\ (~input'.ok \/ OnlyLinesOf(input', {"blank", "ctrl"}))) =>
              /\ trace' = <<CapturePane(input'.ok)>>
              /\ UNCHANGED detectionVars]_vars

\* a prompt and a banner were announced, and then the capture of a prompt
\* check failed: nothing is sent and all three are as they were
FailedCaptureKeepsState ==
    /\ act = "check_for_prompts"
    /\ ~input.ok
    /\ trace = <<CapturePane(FALSE)>>
    /\ last_prompt_hash # None
    /\ last_ratelimit_hash # None
    /\ ratelimit_waiting

\* C32: last_prompt_hash, last_ratelimit_hash and ratelimit_waiting change only
\* in the periodic checks: check_for_prompts leaves the two of the rate limit
\* as they were, check_for_ratelimit leaves last_prompt_hash as it was, and
\* every other step (startup, the loop test, a poll that returned or failed,
\* taking and handling an update of any kind, the flush of the attachments,
\* the signal handler, the exit) leaves all three as they were; neither check
\* touches the running flag; the signal handler unsets the running flag and
\* changes nothing else.
DetectionStateOwnedByChecks ==
    [][/\ act' = "check_for_prompts" =>
              UNCHANGED <<last_ratelimit_hash, ratelimit_waiting, running>>
       /\ act' = "check_for_ratelimit" => UNCHANGED <<last_prompt_hash, running>>
       /\ act' \notin {"check_for_prompts", "check_for_ratelimit"} => UNCHANGED detectionVars
       /\ act' = "handle_signal" =>
              /\ ~running'
              /\ UNCHANGED <<pc, offset, updates, idx, pending_files, now,
                             last_screen_check, handled, tickLog>>
       /\ running' # running => act' = "handle_signal"]_vars

\* the signal came while a banner and a prompt were on record and an update
\* was being handled: only the flag changed
SignalDuringHandlingKeepsState ==
    /\ act = "handle_signal"
    /\ ~running
    /\ pc = "handling"
    /\ last_prompt_hash # None
    /\ ratelimit_waiting
    /\ last_ratelimit_hash # None

====
